---------------------------- MODULE Spec2Model ----------------------------
(***************************************************************************)
(* State-machine model of generate_miescattering_water.py: the script      *)
(* builds the droplet radius grid, derives the sub-radius factors, then    *)
(* for every radius computes the scattering record pair, optionally plots  *)
(* it, writes the per-radius files, appends the pair to the in-memory      *)
(* arrays, and finally writes the combined array-of-array archive.         *)
(*                                                                         *)
(* Units.  Radii are integers in nanometres.  The multipliers a are kept   *)
(* in quarters (a[k] = 4 * code's a[k]) and the decades b in units of      *)
(* 25 nm (b[j] = code's b[j] / 4 in nm), so that a[k]*b[j] is the code's   *)
(* outer(a, b) in nm.  Logarithmic quantities are exact rationals          *)
(* [num, den] of a positive log10 unit.                                    *)
(***************************************************************************)
EXTENDS Integers, Sequences, FiniteSets, TLC

VARIABLES
    pc,             \* position of the script
    plotting,       \* line 90 (configuration input)
    N_sub,          \* line 93 (configuration input)
    droplet_radii,  \* lines 61, 64
    dlog_r,         \* line 111
    r_sub_fac,      \* lines 112-114, each factor given by its log10
    i,              \* loop index of line 120 (1-based)
    ssd, smd,       \* record pair of the current radius (line 124)
    dev,            \* normalization deviation of the current radius (228)
    plots,          \* plot files written below plotfolder
    files,          \* per-radius files written below datafolder
    ssd_array, smd_array,           \* lines 117-118, 252-253
    ssd_array_sqr, smd_array_sqr,   \* lines 258-262
    archive,        \* files written below datafolder_arrayformat
    fail            \* the call that raised, if any

vars == <<pc, plotting, N_sub, droplet_radii, dlog_r, r_sub_fac, i, ssd, smd,
          dev, plots, files, ssd_array, smd_array, ssd_array_sqr,
          smd_array_sqr, archive, fail>>

(***************************************************************************)
(* Bounds of the model                                                     *)
(***************************************************************************)
MaxNSub == 2
MaxNSubFactors == 4
MaxDlogNum == 4
MaxDlogDen == 4

None == [none |-> TRUE]

(***************************************************************************)
(* Arithmetic helpers                                                      *)
(***************************************************************************)
RECURSIVE Pow10(_)
Pow10(e) == IF e = 0 THEN 1 ELSE 10 * Pow10(e - 1)

RECURSIVE NumDigits(_)
NumDigits(n) == IF n < 10 THEN 1 ELSE 1 + NumDigits(n \div 10)

\* Multi-limb naturals (little endian, base 10000): 4^10 * 10^9 and 32^10
\* do not fit in 32-bit integers.
RECURSIVE BigMul(_, _, _)
BigMul(x, m, c) ==
    IF x = << >> THEN (IF c = 0 THEN << >> ELSE <<c>>)
    ELSE LET p == Head(x) * m + c
         IN  <<p % 10000>> \o BigMul(Tail(x), m, p \div 10000)

RECURSIVE BigPow(_, _)
BigPow(n, e) == IF e = 0 THEN <<1>> ELSE BigMul(BigPow(n, e - 1), n, 0)

RECURSIVE BigGE(_, _)
BigGE(x, y) ==
    IF Len(x) # Len(y) THEN Len(x) > Len(y)
    ELSE IF x = << >> THEN TRUE
    ELSE LET n == Len(x)
         IN  IF x[n] # y[n] THEN x[n] > y[n]
             ELSE BigGE(SubSeq(x, 1, n - 1), SubSeq(y, 1, n - 1))

RECURSIVE BigTimesPow10(_, _)
BigTimesPow10(x, e) ==
    IF e = 0 THEN x ELSE BigTimesPow10(BigMul(x, 10, 0), e - 1)

(***************************************************************************)
(* Radius grid, lines 58-64                                                *)
(***************************************************************************)
\* np.arange(0, 1, 0.1): exponents t/10 for t = 0 .. 9
a_steps == 10

\* np.ceil(10 ** (t/10) * 4): the least n with n >= 4 * 10^(t/10),
\* i.e. n^10 >= 4^10 * 10^t
CeilQuarters(t) ==
    LET target == BigTimesPow10(BigPow(4, 10), t)
    IN  CHOOSE n \in 1 .. 40 :
            /\ BigGE(BigPow(n, 10), target)
            /\ \A k \in 1 .. (n - 1) : ~BigGE(BigPow(k, 10), target)

\* (variant: the arange end point 1.0 included, as np.arange(0, 1.1, 0.1))
a_with_endpoint == [k \in 1 .. (a_steps + 1) |-> CeilQuarters(k - 1)]

\* a = np.ceil(10 ** np.arange(0, 1, 0.1) * 4) / 4      (in quarters)
a == [k \in 1 .. a_steps |-> CeilQuarters(k - 1)]

\* np.arange(-7, -2.0): the decades 1e-7 .. 1e-3
b_first == -7
b_stop == -2

\* b = 10 ** np.arange(-7, -2.0): 10^e m = 4 * 25 * 10^(e+7) nm, the 4 is
\* the one of the quarters of a
b == [j \in 1 .. (b_stop - b_first) |-> 25 * Pow10(b_first + j + 6)]

\* np.ravel(np.outer(a, b)): row major
OuterRavel(x, y) ==
    [n \in 1 .. (Len(x) * Len(y)) |->
        x[((n - 1) \div Len(y)) + 1] * y[((n - 1) % Len(y)) + 1]]

RECURSIVE Insert(_, _)
Insert(s, v) ==
    IF s = << >> THEN <<v>>
    ELSE IF v <= Head(s) THEN <<v>> \o s
    ELSE <<Head(s)>> \o Insert(Tail(s), v)

\* np.sort: ascending, equal values all kept
RECURSIVE np_sort(_)
np_sort(s) == IF s = << >> THEN << >> ELSE Insert(np_sort(Tail(s)), Head(s))

\* 5e-3 m in nm
RadiusLimit == 5000000

\* (variant: the comparison of the mask reversed)
RECURSIVE SelectGreater(_, _)
SelectGreater(s, lim) ==
    IF s = << >> THEN << >>
    ELSE IF Head(s) > lim THEN <<Head(s)>> \o SelectGreater(Tail(s), lim)
    ELSE SelectGreater(Tail(s), lim)

\* x[x < lim]: boolean-mask selection, order kept
RECURSIVE SelectLess(_, _)
SelectLess(s, lim) ==
    IF s = << >> THEN << >>
    ELSE IF Head(s) < lim THEN <<Head(s)>> \o SelectLess(Tail(s), lim)
    ELSE SelectLess(Tail(s), lim)

(***************************************************************************)
(* Sub-radius factors, lines 111-114                                       *)
(***************************************************************************)
Abs(n) == IF n < 0 THEN -n ELSE n

RECURSIVE GCD(_, _)
GCD(m, n) == IF n = 0 THEN m ELSE GCD(n, m % n)

\* the rational n/d (d # 0) in lowest terms with a positive denominator
Rat(n, d) ==
    LET s == IF d < 0 THEN -1 ELSE 1
        g == GCD(Abs(n), Abs(d))
    IN  [num |-> (s * n) \div g, den |-> (s * d) \div g]

RAdd(x, y) == Rat(x.num * y.den + y.num * x.den, x.den * y.den)
RSub(x, y) == Rat(x.num * y.den - y.num * x.den, x.den * y.den)
RMul(x, y) == Rat(x.num * y.num, x.den * y.den)
RDiv(x, y) == Rat(x.num * y.den, x.den * y.num)
RLess(x, y) == x.num * y.den < y.num * x.den
RNeg(x) == [num |-> -x.num, den |-> x.den]
Zero == Rat(0, 1)

\* (variant: the end point left out, step = (stop-start)/num)
np_linspace_open(start, stop, num) ==
    [j \in 1 .. num |->
        RAdd(start, RMul(Rat(j - 1, 1), RDiv(RSub(stop, start), Rat(num, 1))))]

\* np.linspace(start, stop, num): start + j*step with step = (stop-start)/(num-1),
\* the last point set to stop; a single point is start
np_linspace(start, stop, num) ==
    [j \in 1 .. num |->
        IF num = 1 THEN start
        ELSE IF j = num THEN stop
        ELSE RAdd(start, RMul(Rat(j - 1, 1),
                              RDiv(RSub(stop, start), Rat(num - 1, 1))))]

\* np.mean(np.diff(np.log10(x))) = (log10 x[n] - log10 x[1]) / (n - 1), given in
\* units of |log10(x[n] / x[1])|: its sign is the sign of x[n] - x[1]
MeanDiffLog10(x) ==
    LET n == Len(x)
        d == x[n] - x[1]
    IN  Rat(IF d > 0 THEN 1 ELSE IF d < 0 THEN -1 ELSE 0, n - 1)

\* (variant: the end points of the bin instead of the sub-interval midpoints)
SubFactorsEndpoints(n, dlog) ==
    LET pts == np_linspace(Zero, Rat(1, 1), n)
    IN  [j \in 1 .. n |-> RMul(RSub(pts[j], Rat(1, 2)), dlog)]

\* (linspace(1/(2n), 1 - 1/(2n), n) - 0.5) * dlog_r: the log10 of each factor
\* of r_sub_fac = 10 ** (...); the factor is 1.0 exactly when its log10 is 0
SubFactors(n, dlog) ==
    LET pts == np_linspace(Rat(1, 2 * n), RSub(Rat(1, 1), Rat(1, 2 * n)), n)
    IN  [j \in 1 .. n |-> RMul(RSub(pts[j], Rat(1, 2)), dlog)]

(***************************************************************************)
(* Record identifier, line 122                                             *)
(***************************************************************************)
\* round to nearest, ties to even, of n / d
RoundHalfEven(n, d) ==
    LET q == n \div d
        r == n % d
    IN  IF 2 * r > d \/ (2 * r = d /\ q % 2 = 1) THEN q + 1 ELSE q

\* format(v, "1.<prec>e") of v = r * 1e6 (the radius in micrometres) for a
\* radius r given in nm: prec + 1 significant digits and the decimal exponent
FormatE(r_nm, prec) ==
    LET D == NumDigits(r_nm)
        m0 == IF D <= prec + 1 THEN r_nm * Pow10(prec + 1 - D)
              ELSE RoundHalfEven(r_nm, Pow10(D - prec - 1))
        carry == (m0 = Pow10(prec + 1))
    IN  [mant |-> IF carry THEN Pow10(prec) ELSE m0,
         exp  |-> (D - 1) - 3 + (IF carry THEN 1 ELSE 0)]

\* (variant: a format with no digit after the point, "1.0e")
pid_short(r_i) == [prefix |-> "MieSphere_R", value |-> FormatE(r_i, 0),
                   unit |-> "um"]

\* pid = f"MieSphere_R{r_i*1e6:1.5e}um"
pid(r_i) == [prefix |-> "MieSphere_R", value |-> FormatE(r_i, 5), unit |-> "um"]

(***************************************************************************)
(* Records and files                                                       *)
(***************************************************************************)
material == "H2O_liquid"
rho_water == 1000
N_f == 121

\* the radii r_i * s handed to the Mie evaluation for the factors s of
\* r_sub_fac: each is given as its base radius and the log10 of its factor,
\* and is r_i itself exactly when that log10 is 0
MieSampleRadii(r_i, fac) ==
    [j \in 1 .. Len(fac) |-> [base |-> r_i, logfac |-> fac[j]]]

\* the record pair returned by gmf.calc_arts_scattering_data (line 124): the
\* single scattering data averaged over the samples, and its meta data
SingleScatteringData(r_i, fac) ==
    [kind |-> "ssd", radius |-> r_i, averaged_over |-> MieSampleRadii(r_i, fac)]

ScatteringMetaData(r_i) ==
    [kind |-> "smd", radius |-> r_i, material |-> material,
     density |-> rho_water]

\* values (in hundredths) gmf.integrate_phasefunction_for_testing may return
IntegralValues == {150, 200, 250}

\* (phfct_integral_mie / 2 - 1) * 100, the integral given in hundredths
Deviation(integral) == integral \div 2 - 100

\* os.path.join(datafolder, pid + ".xml") and pid + ".meta.xml"
DataPath(r_i) == [folder |-> "datafolder", name |-> pid(r_i), ext |-> "xml"]
MetaPath(r_i) == [folder |-> "datafolder", name |-> pid(r_i), ext |-> "meta.xml"]

\* os.path.join(datafolder_arrayformat, f"MieSpheres_{material}.xml") etc.
ArrayDataPath ==
    [folder |-> "datafolder_arrayformat", name |-> <<"MieSpheres_", material>>,
     ext |-> "xml"]
ArrayMetaPath ==
    [folder |-> "datafolder_arrayformat", name |-> <<"MieSpheres_", material>>,
     ext |-> "meta.xml"]

\* writing a file: a new path is created, an existing one is overwritten;
\* writes counts how often the path was written
WriteFile(fs, path, content) ==
    LET old == {f \in fs : f.path = path}
        n == IF old = {} THEN 0 ELSE (CHOOSE f \in old : TRUE).writes
    IN  (fs \ old) \cup {[path |-> path, content |-> content, writes |-> n + 1]}

(***************************************************************************)
(* The script                                                              *)
(***************************************************************************)
Init ==
    /\ pc = "radii"
    /\ plotting \in BOOLEAN
    /\ N_sub \in 1 .. MaxNSub
    /\ droplet_radii = << >>
    /\ dlog_r = None
    /\ r_sub_fac = << >>
    /\ i = 0
    /\ ssd = None
    /\ smd = None
    /\ dev = None
    /\ plots = {}
    /\ files = {}
    /\ ssd_array = << >>
    /\ smd_array = << >>
    /\ ssd_array_sqr = << >>
    /\ smd_array_sqr = << >>
    /\ archive = {}
    /\ fail = "none"

\* lines 59-61
BuildRadii ==
    /\ pc = "radii"
    /\ droplet_radii' = np_sort(OuterRavel(a, b))
    /\ pc' = "filter"
    /\ UNCHANGED <<plotting, N_sub, dlog_r, r_sub_fac, i, ssd, smd, dev, plots,
                   files, ssd_array, smd_array, ssd_array_sqr, smd_array_sqr,
                   archive, fail>>

\* line 64
FilterRadii ==
    /\ pc = "filter"
    /\ droplet_radii' = SelectLess(droplet_radii, RadiusLimit)
    /\ pc' = "dlog"
    /\ UNCHANGED <<plotting, N_sub, dlog_r, r_sub_fac, i, ssd, smd, dev, plots,
                   files, ssd_array, smd_array, ssd_array_sqr, smd_array_sqr,
                   archive, fail>>

\* line 111
ComputeDlogR ==
    /\ pc = "dlog"
    /\ dlog_r' = MeanDiffLog10(droplet_radii)
    /\ pc' = "subfac"
    /\ UNCHANGED <<plotting, N_sub, droplet_radii, r_sub_fac, i, ssd, smd, dev,
                   plots, files, ssd_array, smd_array, ssd_array_sqr,
                   smd_array_sqr, archive, fail>>

\* lines 112-118
ComputeSubFactors ==
    /\ pc = "subfac"
    /\ r_sub_fac' = SubFactors(N_sub, dlog_r)
    /\ ssd_array' = << >>
    /\ smd_array' = << >>
    /\ pc' = "loop"
    /\ UNCHANGED <<plotting, N_sub, droplet_radii, dlog_r, i, ssd, smd, dev,
                   plots, files, ssd_array_sqr, smd_array_sqr, archive, fail>>

\* line 120: the next radius, or the end of the loop
LoopNext ==
    /\ pc = "loop"
    /\ IF i < Len(droplet_radii)
       THEN i' = i + 1 /\ pc' = "calc"
       ELSE i' = i /\ pc' = "wrap"
    /\ UNCHANGED <<plotting, N_sub, droplet_radii, dlog_r, r_sub_fac, ssd, smd,
                   dev, plots, files, ssd_array, smd_array, ssd_array_sqr,
                   smd_array_sqr, archive, fail>>

r_i == droplet_radii[i]

\* a call that raises ends the script: nothing catches it
Raise(what) ==
    /\ fail' = what
    /\ pc' = "aborted"

\* lines 124-138: the records of r_i, then the branch on plotting
Calc ==
    /\ pc = "calc"
    /\ ssd' = SingleScatteringData(r_i, r_sub_fac)
    /\ smd' = ScatteringMetaData(r_i)
    /\ pc' = IF plotting THEN "plot_phamat" ELSE "save_ssd"
    /\ UNCHANGED <<plotting, N_sub, droplet_radii, dlog_r, r_sub_fac, i, dev,
                   plots, files, ssd_array, smd_array, ssd_array_sqr,
                   smd_array_sqr, archive, fail>>

\* (variant: the failure caught and the radius skipped)
CalcSkipsRadius ==
    /\ pc = "calc"
    /\ pc' = "loop"
    /\ UNCHANGED <<plotting, N_sub, droplet_radii, dlog_r, r_sub_fac, i, ssd,
                   smd, dev, plots, files, ssd_array, smd_array, ssd_array_sqr,
                   smd_array_sqr, archive, fail>>

\* line 124 raising
CalcRaises ==
    /\ pc = "calc"
    /\ Raise("calc")
    /\ UNCHANGED <<plotting, N_sub, droplet_radii, dlog_r, r_sub_fac, i, ssd,
                   smd, dev, plots, files, ssd_array, smd_array, ssd_array_sqr,
                   smd_array_sqr, archive>>

\* lines 140-189: one phase matrix plot for every tenth frequency
PlotPhaseMatrix ==
    /\ pc = "plot_phamat"
    /\ plots' = plots \cup
          {[kind |-> "PhaMat", name |-> pid(r_i), k |-> k] :
               k \in {k \in 0 .. (N_f - 1) : ~(k % 10 > 0)}}
    /\ pc' = "plot_cross"
    /\ UNCHANGED <<plotting, N_sub, droplet_radii, dlog_r, r_sub_fac, i, ssd,
                   smd, dev, files, ssd_array, smd_array, ssd_array_sqr,
                   smd_array_sqr, archive, fail>>

\* lines 191-220
PlotCrossSections ==
    /\ pc = "plot_cross"
    /\ plots' = plots \cup {[kind |-> "optical_properties", name |-> pid(r_i)]}
    /\ pc' = "plot_norm"
    /\ UNCHANGED <<plotting, N_sub, droplet_radii, dlog_r, r_sub_fac, i, ssd,
                   smd, dev, files, ssd_array, smd_array, ssd_array_sqr,
                   smd_array_sqr, archive, fail>>

\* (variant: the plotting step rescales the record it plots)
PlotNormalizationRescales ==
    /\ pc = "plot_norm"
    /\ \E integral \in IntegralValues :
          /\ dev' = [k \in 0 .. (N_f - 1) |-> Deviation(integral)]
          /\ ssd' = [ssd EXCEPT !.averaged_over = << >>]
    /\ plots' = plots \cup
          {[kind |-> "phasefunction_derivation", name |-> pid(r_i)]}
    /\ pc' = "save_ssd"
    /\ UNCHANGED <<plotting, N_sub, droplet_radii, dlog_r, r_sub_fac, i,
                   smd, files, ssd_array, smd_array, ssd_array_sqr,
                   smd_array_sqr, archive, fail>>

\* lines 222-244: the deviation per frequency of f_grid_ssd, plotted
PlotNormalization ==
    /\ pc = "plot_norm"
    /\ \E integral \in IntegralValues :
          dev' = [k \in 0 .. (N_f - 1) |-> Deviation(integral)]
    /\ plots' = plots \cup
          {[kind |-> "phasefunction_derivation", name |-> pid(r_i)]}
    /\ pc' = "save_ssd"
    /\ UNCHANGED <<plotting, N_sub, droplet_radii, dlog_r, r_sub_fac, i, ssd,
                   smd, files, ssd_array, smd_array, ssd_array_sqr,
                   smd_array_sqr, archive, fail>>

\* a call of lines 140-244 raising (os.makedirs, fig.savefig, ...)
PlotRaises ==
    /\ pc \in {"plot_phamat", "plot_cross", "plot_norm"}
    /\ Raise("plot")
    /\ UNCHANGED <<plotting, N_sub, droplet_radii, dlog_r, r_sub_fac, i, ssd,
                   smd, dev, plots, files, ssd_array, smd_array, ssd_array_sqr,
                   smd_array_sqr, archive>>

\* (variant: the record is written only when its deviation is within 1 %)
SaveSsdIfNormalized ==
    /\ pc = "save_ssd"
    /\ dev # None => \A k \in DOMAIN dev : dev[k] <= 1 /\ dev[k] >= -1
    /\ files' = WriteFile(files, DataPath(r_i), ssd)
    /\ pc' = "save_smd"
    /\ UNCHANGED <<plotting, N_sub, droplet_radii, dlog_r, r_sub_fac, i, ssd,
                   smd, dev, plots, ssd_array, smd_array, ssd_array_sqr,
                   smd_array_sqr, archive, fail>>

\* line 249
SaveSsd ==
    /\ pc = "save_ssd"
    /\ files' = WriteFile(files, DataPath(r_i), ssd)
    /\ pc' = "save_smd"
    /\ UNCHANGED <<plotting, N_sub, droplet_radii, dlog_r, r_sub_fac, i, ssd,
                   smd, dev, plots, ssd_array, smd_array, ssd_array_sqr,
                   smd_array_sqr, archive, fail>>

SaveSsdRaises ==
    /\ pc = "save_ssd"
    /\ Raise("save_ssd")
    /\ UNCHANGED <<plotting, N_sub, droplet_radii, dlog_r, r_sub_fac, i, ssd,
                   smd, dev, plots, files, ssd_array, smd_array, ssd_array_sqr,
                   smd_array_sqr, archive>>

\* (variant: the meta file is not written inside the loop)
SaveSmdDeferred ==
    /\ pc = "save_smd"
    /\ pc' = "append"
    /\ UNCHANGED <<plotting, N_sub, droplet_radii, dlog_r, r_sub_fac, i, ssd,
                   smd, dev, plots, files, ssd_array, smd_array, ssd_array_sqr,
                   smd_array_sqr, archive, fail>>

\* line 250
SaveSmd ==
    /\ pc = "save_smd"
    /\ files' = WriteFile(files, MetaPath(r_i), smd)
    /\ pc' = "append"
    /\ UNCHANGED <<plotting, N_sub, droplet_radii, dlog_r, r_sub_fac, i, ssd,
                   smd, dev, plots, ssd_array, smd_array, ssd_array_sqr,
                   smd_array_sqr, archive, fail>>

SaveSmdRaises ==
    /\ pc = "save_smd"
    /\ Raise("save_smd")
    /\ UNCHANGED <<plotting, N_sub, droplet_radii, dlog_r, r_sub_fac, i, ssd,
                   smd, dev, plots, files, ssd_array, smd_array, ssd_array_sqr,
                   smd_array_sqr, archive>>

\* lines 252-253
AppendRecords ==
    /\ pc = "append"
    /\ ssd_array' = Append(ssd_array, ssd)
    /\ smd_array' = Append(smd_array, smd)
    /\ pc' = "loop"
    /\ UNCHANGED <<plotting, N_sub, droplet_radii, dlog_r, r_sub_fac, i, ssd,
                   smd, dev, plots, files, ssd_array_sqr, smd_array_sqr,
                   archive, fail>>

\* (variant: the arrays extended by the records instead of holding the array)
WrapArraysExtends ==
    /\ pc = "wrap"
    /\ ssd_array_sqr' = << >> \o ssd_array
    /\ smd_array_sqr' = << >> \o smd_array
    /\ pc' = "save_array_ssd"
    /\ UNCHANGED <<plotting, N_sub, droplet_radii, dlog_r, r_sub_fac, i, ssd,
                   smd, dev, plots, files, ssd_array, smd_array, archive, fail>>

\* lines 258-262
WrapArrays ==
    /\ pc = "wrap"
    /\ ssd_array_sqr' = Append(<< >>, ssd_array)
    /\ smd_array_sqr' = Append(<< >>, smd_array)
    /\ pc' = "save_array_ssd"
    /\ UNCHANGED <<plotting, N_sub, droplet_radii, dlog_r, r_sub_fac, i, ssd,
                   smd, dev, plots, files, ssd_array, smd_array, archive, fail>>

\* lines 265-269
SaveArraySsd ==
    /\ pc = "save_array_ssd"
    /\ archive' = WriteFile(archive, ArrayDataPath, ssd_array_sqr)
    /\ pc' = "save_array_smd"
    /\ UNCHANGED <<plotting, N_sub, droplet_radii, dlog_r, r_sub_fac, i, ssd,
                   smd, dev, plots, files, ssd_array, smd_array, ssd_array_sqr,
                   smd_array_sqr, fail>>

SaveArraySsdRaises ==
    /\ pc = "save_array_ssd"
    /\ Raise("save_array_ssd")
    /\ UNCHANGED <<plotting, N_sub, droplet_radii, dlog_r, r_sub_fac, i, ssd,
                   smd, dev, plots, files, ssd_array, smd_array, ssd_array_sqr,
                   smd_array_sqr, archive>>

\* lines 270-274
SaveArraySmd ==
    /\ pc = "save_array_smd"
    /\ archive' = WriteFile(archive, ArrayMetaPath, smd_array_sqr)
    /\ pc' = "done"
    /\ UNCHANGED <<plotting, N_sub, droplet_radii, dlog_r, r_sub_fac, i, ssd,
                   smd, dev, plots, files, ssd_array, smd_array, ssd_array_sqr,
                   smd_array_sqr, fail>>

SaveArraySmdRaises ==
    /\ pc = "save_array_smd"
    /\ Raise("save_array_smd")
    /\ UNCHANGED <<plotting, N_sub, droplet_radii, dlog_r, r_sub_fac, i, ssd,
                   smd, dev, plots, files, ssd_array, smd_array, ssd_array_sqr,
                   smd_array_sqr, archive>>

Next ==
    \/ BuildRadii
    \/ FilterRadii
    \/ ComputeDlogR
    \/ ComputeSubFactors
    \/ LoopNext
    \/ Calc
    \/ CalcRaises
    \/ PlotPhaseMatrix
    \/ PlotCrossSections
    \/ PlotNormalization
    \/ PlotRaises
    \/ SaveSsd
    \/ SaveSsdRaises
    \/ SaveSmd
    \/ SaveSmdRaises
    \/ AppendRecords
    \/ WrapArrays
    \/ SaveArraySsd
    \/ SaveArraySsdRaises
    \/ SaveArraySmd
    \/ SaveArraySmdRaises

Spec == Init /\ [][Next]_vars

(***************************************************************************)
(* The sub-radius factors as a function of N_sub and the bin width: the    *)
(* script at line 112 with any positive bin width                          *)
(***************************************************************************)
GridRadii == SelectLess(np_sort(OuterRavel(a, b)), RadiusLimit)

InitFactors ==
    /\ pc = "subfac"
    /\ plotting \in BOOLEAN
    /\ N_sub \in 1 .. MaxNSubFactors
    /\ droplet_radii = GridRadii
    /\ dlog_r \in {Rat(n, d) : n \in 1 .. MaxDlogNum, d \in 1 .. MaxDlogDen}
    /\ r_sub_fac = << >>
    /\ i = 0
    /\ ssd = None
    /\ smd = None
    /\ dev = None
    /\ plots = {}
    /\ files = {}
    /\ ssd_array = << >>
    /\ smd_array = << >>
    /\ ssd_array_sqr = << >>
    /\ smd_array_sqr = << >>
    /\ archive = {}
    /\ fail = "none"

NextFactors == ComputeSubFactors

SpecFactors == InitFactors /\ [][NextFactors]_vars

(***************************************************************************)
(* Properties                                                              *)
(***************************************************************************)
Range(f) == {f[x] : x \in DOMAIN f}
Candidates == Range(OuterRavel(a, b))
StrictlyIncreasing(s) == \A j \in 1 .. (Len(s) - 1) : s[j] < s[j + 1]
GridBuilt == pc \notin {"radii"}
GridFiltered == pc \notin {"radii", "filter"}
InLoopBody == pc \in {"calc", "plot_phamat", "plot_cross", "plot_norm",
                      "save_ssd", "save_smd", "append"}
FileAt(fs, path) == {f \in fs : f.path = path}

\* C1: once the filter of line 64 has run, every radius of droplet_radii is
\* strictly below 5e-3 m (5 000 000 nm), and droplet_radii holds exactly the
\* candidates of the outer product that are below 5e-3 m: every candidate at
\* or above the limit is excluded, every candidate below it is kept.
C1_RadiiBelowLimit ==
    GridFiltered =>
        /\ \A j \in 1 .. Len(droplet_radii) : droplet_radii[j] < 5000000
        /\ Range(droplet_radii) = {c \in Candidates : c < 5000000}

C1_Witness ==
    /\ GridFiltered
    /\ \E c \in Candidates : c >= 5000000 /\ c \notin Range(droplet_radii)
    /\ \E c \in Candidates : c < 5000000 /\ c \in Range(droplet_radii)

\* C2: the radius grid is the sorted flattened outer product of a and b: it
\* holds every product, as many entries as there are products, and it is
\* strictly increasing (no radius value occurs twice), before and after the
\* filter.
C2_GridStrictlyIncreasing ==
    /\ GridBuilt => StrictlyIncreasing(droplet_radii)
    /\ pc = "filter" =>
          /\ Len(droplet_radii) = Len(a) * Len(b)
          /\ Range(droplet_radii) = Candidates

C2_Witness ==
    /\ pc = "filter"
    /\ Len(droplet_radii) = Len(a) * Len(b)
    /\ Len(droplet_radii) > Len(a)

\* C3: every combined archive file holds an outer sequence of length exactly 1
\* whose single element has one record per radius of the grid, record j being
\* the one of radius j of the (ascending) grid; the data archive and the meta
\* archive are index aligned.
C3_ArchiveShape ==
    /\ \A f \in archive :
          /\ Len(f.content) = 1
          /\ Len(f.content[1]) = Len(droplet_radii)
          /\ \A j \in 1 .. Len(droplet_radii) :
                f.content[1][j].radius = droplet_radii[j]
          /\ \A j \in 1 .. (Len(f.content[1]) - 1) :
                f.content[1][j].radius < f.content[1][j + 1].radius
          /\ \A j \in 1 .. Len(f.content[1]) :
                f.content[1][j].kind =
                    (IF f.path = ArrayDataPath THEN "ssd" ELSE "smd")
    /\ \A f \in FileAt(archive, ArrayDataPath) :
          \A g \in FileAt(archive, ArrayMetaPath) :
             /\ Len(f.content[1]) = Len(g.content[1])
             /\ \A j \in 1 .. Len(f.content[1]) :
                   f.content[1][j].radius = g.content[1][j].radius

C3_Witness ==
    /\ FileAt(archive, ArrayDataPath) # {}
    /\ FileAt(archive, ArrayMetaPath) # {}
    /\ \E f \in archive : Len(f.content) = 1 /\ Len(f.content[1]) > 1

\* C4: a radius is written before it is appended and before any later radius
\* is computed: every appended pair has its data file and its meta file on
\* disk holding that pair, the files on disk are those of the radii up to the
\* current one, the arrays hold exactly the radii before the current one
\* until the current one is appended; each archive kind is written at most
\* once, only after every radius has been written and appended, and exactly
\* once by the end of the run.
C4_WriteThenAppendThenNext ==
    LET dp == [j \in 1 .. Len(droplet_radii) |-> DataPath(droplet_radii[j])]
        mp == [j \in 1 .. Len(droplet_radii) |-> MetaPath(droplet_radii[j])]
        upto_i == {dp[j] : j \in 1 .. i} \cup {mp[j] : j \in 1 .. i}
        on_disk == {[path |-> f.path, content |-> f.content] : f \in files}
    IN  /\ \A j \in 1 .. Len(ssd_array) :
              /\ [path |-> dp[j], content |-> ssd_array[j]] \in on_disk
              /\ [path |-> mp[j], content |-> smd_array[j]] \in on_disk
        /\ Cardinality({f.path : f \in files}) = Cardinality(on_disk)
        /\ Len(ssd_array) = Len(smd_array)
        /\ InLoopBody => Len(ssd_array) = i - 1
        /\ pc \in {"loop", "wrap", "save_array_ssd", "save_array_smd", "done"}
              => Len(ssd_array) = i
        /\ \A f \in files : f.path \in upto_i
        /\ pc = "save_smd" => FileAt(files, dp[i]) # {}
        /\ pc = "append" =>
              /\ FileAt(files, dp[i]) # {}
              /\ FileAt(files, mp[i]) # {}
        /\ \A f \in archive : f.writes = 1
        /\ archive # {} =>
              /\ i = Len(droplet_radii)
              /\ Len(ssd_array) = Len(droplet_radii)
              /\ Cardinality(files) = 2 * Len(droplet_radii)
        /\ pc = "done" =>
              /\ FileAt(archive, ArrayDataPath) # {}
              /\ FileAt(archive, ArrayMetaPath) # {}

C4_Witness ==
    /\ pc = "done"
    /\ Cardinality(archive) = 2
    /\ Cardinality(files) = 2 * Len(droplet_radii)
    /\ Len(ssd_array) > 1

\* C5: a raising computation or per-radius write ends the run at that radius:
\* the run is stopped for good, the radii before the failed one are the only
\* ones appended, no file of a later radius exists and no combined archive is
\* written.  A combined archive exists only when every radius of the grid was
\* computed, written and appended, in order, with no call having raised
\* before.
C5_FailureAborts ==
    LET dp == [j \in 1 .. Len(droplet_radii) |-> DataPath(droplet_radii[j])]
        mp == [j \in 1 .. Len(droplet_radii) |-> MetaPath(droplet_radii[j])]
        upto_i == {dp[j] : j \in 1 .. i} \cup {mp[j] : j \in 1 .. i}
    IN  /\ (fail # "none") <=> (pc = "aborted")
        /\ pc = "aborted" => ~ENABLED Next
        /\ fail \in {"calc", "save_ssd", "save_smd"} =>
              /\ archive = {}
              /\ Len(ssd_array) = i - 1
              /\ \A f \in files : f.path \in upto_i
              /\ fail \in {"calc", "save_ssd"} => FileAt(files, dp[i]) = {}
              /\ FileAt(files, mp[i]) = {}
        /\ archive # {} =>
              /\ fail \in {"none", "save_array_smd"}
              /\ Len(ssd_array) = Len(droplet_radii)
              /\ \A j \in 1 .. Len(droplet_radii) :
                    /\ ssd_array[j].radius = droplet_radii[j]
                    /\ smd_array[j].radius = droplet_radii[j]
                    /\ FileAt(files, dp[j]) # {}
                    /\ FileAt(files, mp[j]) # {}

C5_Witness ==
    /\ pc = "aborted"
    /\ fail = "save_smd"
    /\ i > 1
    /\ i < Len(droplet_radii)
    /\ archive = {}

\* C6: with N_sub = 1 the factor sequence is the single factor 1.0 (log10 0),
\* so every record is averaged over exactly one sample, the radius r_i itself
\* (r_i * 1.0): the unaveraged single-radius evaluation.
C6_SingleFactorIsOne ==
    N_sub = 1 =>
        /\ pc \notin {"radii", "filter", "dlog", "subfac"} =>
              r_sub_fac = <<Zero>>
        /\ ssd # None =>
              ssd.averaged_over = <<[base |-> ssd.radius, logfac |-> Zero]>>
        /\ \A j \in 1 .. Len(ssd_array) :
              ssd_array[j].averaged_over =
                  <<[base |-> droplet_radii[j], logfac |-> Zero]>>

C6_Witness ==
    /\ N_sub = 1
    /\ pc = "save_ssd"
    /\ i > 1
    /\ ssd.radius = r_i
    /\ Len(ssd.averaged_over) = 1

RECURSIVE RSum(_)
RSum(s) == IF s = << >> THEN Zero ELSE RAdd(Head(s), RSum(Tail(s)))

\* C7: for every N_sub >= 1 and bin width dlog_r > 0 the factor sequence has
\* N_sub entries whose log10 offsets are strictly increasing, spaced by
\* dlog_r / N_sub, symmetric about 0 (they sum to 0), strictly inside
\* (-dlog_r/2, +dlog_r/2), and are the midpoints of the N_sub equal
\* sub-intervals of the bin: offset j = -dlog_r/2 + (2j - 1)/(2 N_sub) dlog_r.
C7_SubFactorMidpoints ==
    pc = "loop" =>
        LET n == N_sub
            half == RMul(Rat(1, 2), dlog_r)
        IN  /\ Len(r_sub_fac) = n
            /\ \A j \in 1 .. (n - 1) :
                  /\ RLess(r_sub_fac[j], r_sub_fac[j + 1])
                  /\ RSub(r_sub_fac[j + 1], r_sub_fac[j])
                         = RDiv(dlog_r, Rat(n, 1))
            /\ \A j \in 1 .. n : r_sub_fac[j] = RNeg(r_sub_fac[n + 1 - j])
            /\ RSum(r_sub_fac) = Zero
            /\ \A j \in 1 .. n :
                  /\ RLess(RNeg(half), r_sub_fac[j])
                  /\ RLess(r_sub_fac[j], half)
                  /\ r_sub_fac[j] =
                         RAdd(RNeg(half), RMul(Rat(2 * j - 1, 2 * n), dlog_r))

C7_Witness ==
    /\ pc = "loop"
    /\ N_sub = 3
    /\ dlog_r = Rat(3, 2)
    /\ r_sub_fac = <<Rat(-1, 2), Zero, Rat(1, 2)>>

\* C8: the identifier is a function of the radius that is injective on the
\* radius grid; every per-radius file was written exactly once, lies at the
\* path named by the radius of the record it holds, and the number of files
\* is twice the number of radii written.
C8_IdentifiersUnique ==
    GridFiltered =>
        LET id == [j \in 1 .. Len(droplet_radii) |-> pid(droplet_radii[j])]
            upto_i == {droplet_radii[j] : j \in 1 .. i}
        IN  /\ Cardinality(Range(id)) = Cardinality(Range(droplet_radii))
            /\ \A f \in files :
                  /\ f.writes = 1
                  /\ f.content.radius \in upto_i
                  /\ f.path.name = pid(f.content.radius)
            /\ pc \in {"loop", "calc", "wrap", "done"} =>
                  Cardinality(files) = 2 * Len(ssd_array)

C8_Witness ==
    /\ pc = "done"
    /\ Len(droplet_radii) > 1
    /\ Cardinality(files) = 2 * Len(droplet_radii)
    /\ \A f \in files : f.writes = 1

\* the records a radius grid yields, from the collaborators' results alone
ExpectedSsd ==
    [j \in 1 .. Len(droplet_radii) |->
        SingleScatteringData(droplet_radii[j], r_sub_fac)]
ExpectedSmd ==
    [j \in 1 .. Len(droplet_radii) |-> ScatteringMetaData(droplet_radii[j])]

AllWritten ==
    LET n == Len(droplet_radii)
    IN  /\ files =
              {[path |-> DataPath(droplet_radii[j]), content |-> ExpectedSsd[j],
                writes |-> 1] : j \in 1 .. n}
              \cup
              {[path |-> MetaPath(droplet_radii[j]), content |-> ExpectedSmd[j],
                writes |-> 1] : j \in 1 .. n}
        /\ archive =
              {[path |-> ArrayDataPath, content |-> <<ExpectedSsd>>,
                writes |-> 1],
               [path |-> ArrayMetaPath, content |-> <<ExpectedSmd>>,
                writes |-> 1]}

NormalizationReported(r) ==
    [kind |-> "phasefunction_derivation", name |-> pid(r)] \in plots

=============================================================================
